---- MODULE Spec2Model ----
(***************************************************************************)
(* A model of the fontMake export plugin (plugin.py): the preference       *)
(* store it reads and writes, the dialog's controls, the virtual           *)
(* environment on disk, and the export callback with the subprocesses it   *)
(* runs.                                                                   *)
(*                                                                         *)
(* Text is a sequence of atoms.  An atom is a string that the code treats  *)
(* as one unit: a character of the extra-options string, a whole argument  *)
(* such as "-m", a marker such as "ERROR:", or the line break "\n".        *)
(***************************************************************************)
EXTENDS Integers, Sequences, FiniteSets, TLC

VARIABLES
    defaults,       \* Glyphs.defaults: the stored preferences, key -> value
    registered,     \* the values given to Glyphs.registerDefault
    started,        \* whether the host has called start()
    buttonState,    \* the state of each of the four format checkboxes
    buttonTag,      \* the tag of each of the four format checkboxes
    menu,           \* the items of recentExportPathsButton's menu
    venv,           \* the venv folder on disk: [dir, python, fontmake]
    font,           \* the font document the host passes to export
    compiler,       \* what fontmake does with this font: [returncode, stdout]
    fontCopy,       \* the copy export() normalises (its layers carry the passes run)
    tempFile,       \* the staged font.glyphs file on disk
    steps,          \* the steps the last export() call went through, in order
    subprocesses,   \* the subprocesses the last export() call started: [cmd, rc]
    destination,    \* the export path the last export() call resolved
    process,        \* the last compiler run: [invoked, installed, args, returncode, stdout]
    result          \* how the last export() call ended: [kind, exc, ok, msg]

vars == <<defaults, registered, started, buttonState, buttonTag, menu, venv, font,
          compiler, fontCopy, tempFile, steps, subprocesses, destination, process, result>>

exportVars == <<fontCopy, tempFile, steps, subprocesses, destination, process, result>>

(***************************************************************************)
(* Bounds of the model.                                                    *)
(***************************************************************************)
MaxLen == 3          \* longest extra-options string drawn as an input
MaxSelected == 2     \* most options selected in the add-option popover at once
MaxStored == 6       \* longest extra-options string addParameter_ may grow to
MaxOut == 5          \* longest captured compiler output, in atoms
MaxShapes == 2       \* most shapes of a layer
MaxLayers == 2       \* most glyph layers of a font

(***************************************************************************)
(* Preference key names and format values.                                 *)
(***************************************************************************)
ExportOutlineformatKey == "org_fontMake_exportOutlineformat"
ExportPathKey == "org_fontMake_exportPath"
UseExportPathKey == "org_fontMake_useExportPath"
AdditionalOptionsKey == "org_fontMake_additional_options"
ExportRecentExportPathsKey == "org_fontMake_recent_exportPaths"

OutlineFormatVariableTTF == 1
OutlineFormatVariableCFF == 2
OutlineFormatStaticCFF == 3
OutlineFormatStaticTTF == 4

OutlineFormats == {OutlineFormatVariableTTF, OutlineFormatVariableCFF,
                   OutlineFormatStaticCFF, OutlineFormatStaticTTF}

\* Mutant: the two static formats' tuples changed places.
outlineformatKeysSwapped(outlineformat) ==
    CASE outlineformat = OutlineFormatVariableTTF -> << <<"variable">> >>
      [] outlineformat = OutlineFormatVariableCFF -> << <<"variable-cff2">> >>
      [] outlineformat = OutlineFormatStaticCFF -> << <<"ttf">>, <<"-i">> >>
      [] outlineformat = OutlineFormatStaticTTF -> << <<"otf">>, <<"-i">> >>

outlineformatKeys(outlineformat) ==
    CASE outlineformat = OutlineFormatVariableTTF -> << <<"variable">> >>
      [] outlineformat = OutlineFormatVariableCFF -> << <<"variable-cff2">> >>
      [] outlineformat = OutlineFormatStaticCFF -> << <<"otf">>, <<"-i">> >>
      [] outlineformat = OutlineFormatStaticTTF -> << <<"ttf">>, <<"-i">> >>

(***************************************************************************)
(* The host's preference store.  A key that was never set, or was set to   *)
(* None, is absent; a read falls back to the registered default.           *)
(***************************************************************************)
HasDefault(key) == key \in (DOMAIN defaults) \cup (DOMAIN registered)

GetDefault(key) == IF key \in DOMAIN defaults THEN defaults[key] ELSE registered[key]

IntDefault(key) == IF HasDefault(key) THEN GetDefault(key) ELSE 0

BoolDefault(key) == IF HasDefault(key) THEN GetDefault(key) ELSE FALSE

SetDefault(store, key, value) ==
    [k \in (DOMAIN store) \cup {key} |-> IF k = key THEN value ELSE store[k]]

RemoveDefault(store, key) == [k \in (DOMAIN store) \ {key} |-> store[k]]

\* The empty store, and stores drawn as inputs: a preference that may be absent is drawn as <<>> or <<value>>.
Maybe(S) == {<<>>} \cup {<<x>> : x \in S}

Put(store, key, maybe) == IF maybe = <<>> THEN store ELSE SetDefault(store, key, maybe[1])

NoStore == [k \in {} |-> 0]

(***************************************************************************)
(* Folders the user can pick, and the home Documents folder.               *)
(***************************************************************************)
Paths == {"/A", "/B", "/C"}
None == "None"
DocumentsPath == "~/Documents"

(***************************************************************************)
(* The dialog.                                                             *)
(***************************************************************************)
Buttons == {"variableTTFButton", "variableCFFButton", "staticCFFButton", "staticTTFButton"}

NibMenuItem == "Choose..."

\* Mutant: the static TTF checkbox is compared with the static CFF format.
setupCheckboxesStateCopied(outlineformat) ==
    [variableTTFButton |-> outlineformat = OutlineFormatVariableTTF,
     variableCFFButton |-> outlineformat = OutlineFormatVariableCFF,
     staticCFFButton |-> outlineformat = OutlineFormatStaticCFF,
     staticTTFButton |-> outlineformat = OutlineFormatStaticCFF]

setupCheckboxesState(outlineformat) ==
    [variableTTFButton |-> outlineformat = OutlineFormatVariableTTF,
     variableCFFButton |-> outlineformat = OutlineFormatVariableCFF,
     staticCFFButton |-> outlineformat = OutlineFormatStaticCFF,
     staticTTFButton |-> outlineformat = OutlineFormatStaticTTF]

setupCheckboxesTag ==
    [variableTTFButton |-> OutlineFormatVariableTTF,
     variableCFFButton |-> OutlineFormatVariableCFF,
     staticCFFButton |-> OutlineFormatStaticCFF,
     staticTTFButton |-> OutlineFormatStaticTTF]

\* The menu keeps its first item; the recent paths, a separator and
\* "Clear Recent" follow when there are recent paths; "Update fontMake" ends it.
setupRecentExportPathsButton(oldMenu, store) ==
    LET kept == IF Len(oldMenu) > 1 THEN <<oldMenu[1]>> ELSE oldMenu
        recentExportPaths ==
            IF ExportRecentExportPathsKey \in DOMAIN store
            THEN store[ExportRecentExportPathsKey] ELSE <<>>
    IN  kept
        \o (IF Len(recentExportPaths) > 0
            THEN recentExportPaths \o <<"-", "Clear Recent">> ELSE <<>>)
        \o <<"Update fontMake">>

\* NSMutableOrderedSet.initWithArray_: the array's members, each once, in
\* the order of their first occurrence.
RECURSIVE initWithArray(_)
initWithArray(array) ==
    IF array = <<>> THEN <<>>
    ELSE LET front == initWithArray(SubSeq(array, 1, Len(array) - 1))
             last == array[Len(array)]
         IN  IF \E i \in 1..Len(front) : front[i] = last THEN front
             ELSE Append(front, last)

\* NSMutableOrderedSet.insertObject_atIndex_(object, 0): an object that is
\* already a member is left where it is.
insertObject_atIndex0(orderedSet, object) ==
    IF \E i \in 1..Len(orderedSet) : orderedSet[i] = object THEN orderedSet
    ELSE <<object>> \o orderedSet

start ==
    /\ ~started
    /\ started' = TRUE
    /\ registered' = SetDefault(SetDefault(registered, ExportOutlineformatKey,
                                           OutlineFormatVariableTTF),
                                ExportPathKey, DocumentsPath)
    /\ LET outlineformat ==
               IF ExportOutlineformatKey \in DOMAIN defaults
               THEN defaults[ExportOutlineformatKey]
               ELSE registered'[ExportOutlineformatKey]
       IN  /\ buttonState' = setupCheckboxesState(outlineformat)
           /\ buttonTag' = setupCheckboxesTag
    /\ menu' = setupRecentExportPathsButton(menu, defaults)
    /\ UNCHANGED <<defaults, venv, font, compiler>>
    /\ UNCHANGED exportVars

setFileType_(sender) ==
    /\ started
    /\ LET outlineFormat == buttonTag[sender]
       IN  /\ defaults' = SetDefault(defaults, ExportOutlineformatKey, outlineFormat)
           /\ buttonState' = setupCheckboxesState(outlineFormat)
           /\ buttonTag' = setupCheckboxesTag
    /\ UNCHANGED <<registered, started, menu, venv, font, compiler>>
    /\ UNCHANGED exportVars

setRecentExportPath_(item) ==
    /\ started
    /\ item \in 2..Len(menu)
    /\ menu[item] \in Paths
    /\ defaults' = SetDefault(defaults, ExportPathKey, menu[item])
    /\ UNCHANGED <<registered, started, buttonState, buttonTag, menu, venv, font, compiler>>
    /\ UNCHANGED exportVars

clearRecent_ ==
    /\ started
    /\ \E i \in 1..Len(menu) : menu[i] = "Clear Recent"
    /\ defaults' = RemoveDefault(defaults, ExportRecentExportPathsKey)
    /\ menu' = setupRecentExportPathsButton(menu, defaults')
    /\ UNCHANGED <<registered, started, buttonState, buttonTag, venv, font, compiler>>
    /\ UNCHANGED exportVars

openDoc_(path) ==
    /\ started
    /\ IF path # None
       THEN LET recentExportPaths ==
                    IF HasDefault(ExportRecentExportPathsKey)
                    THEN GetDefault(ExportRecentExportPathsKey) ELSE <<>>
                recentExportPathsSet ==
                    insertObject_atIndex0(initWithArray(recentExportPaths), path)
            IN  /\ defaults' = SetDefault(SetDefault(defaults, ExportPathKey, path),
                                          ExportRecentExportPathsKey, recentExportPathsSet)
                /\ menu' = setupRecentExportPathsButton(menu, defaults')
       ELSE UNCHANGED <<defaults, menu>>
    /\ UNCHANGED <<registered, started, buttonState, buttonTag, venv, font, compiler>>
    /\ UNCHANGED exportVars

(***************************************************************************)
(* Text.                                                                   *)
(***************************************************************************)
\* sep.join(texts)
RECURSIVE join(_, _)
join(sep, texts) ==
    IF texts = <<>> THEN <<>>
    ELSE IF Len(texts) = 1 THEN texts[1]
    ELSE texts[1] \o sep \o join(sep, Tail(texts))

\* str.splitlines(): the pieces between line breaks; a line break at the
\* end of the text opens no further line.
RECURSIVE splitlinesFrom(_, _, _, _)
splitlinesFrom(text, i, line, lines) ==
    IF i > Len(text) THEN (IF line = <<>> THEN lines ELSE Append(lines, line))
    ELSE IF text[i] = "\n" THEN splitlinesFrom(text, i + 1, <<>>, Append(lines, line))
    ELSE splitlinesFrom(text, i + 1, Append(line, text[i]), lines)

splitlines(text) == splitlinesFrom(text, 1, <<>>, <<>>)

\* shlex.split(s) in POSIX mode over blanks, single quotes and plain
\* characters: blanks separate tokens, a quoted stretch is taken literally
\* and may be empty, and a quote that is never closed raises ValueError.
RECURSIVE shlexFrom(_, _, _, _, _, _)
shlexFrom(s, i, token, inToken, inQuote, tokens) ==
    IF i > Len(s)
    THEN IF inQuote THEN [ok |-> FALSE, tokens |-> <<>>]
         ELSE [ok |-> TRUE, tokens |-> IF inToken THEN Append(tokens, token) ELSE tokens]
    ELSE IF inQuote
    THEN IF s[i] = "'" THEN shlexFrom(s, i + 1, token, TRUE, FALSE, tokens)
         ELSE shlexFrom(s, i + 1, Append(token, s[i]), TRUE, TRUE, tokens)
    ELSE IF s[i] = " "
    THEN IF inToken THEN shlexFrom(s, i + 1, <<>>, FALSE, FALSE, Append(tokens, token))
         ELSE shlexFrom(s, i + 1, <<>>, FALSE, FALSE, tokens)
    ELSE IF s[i] = "'" THEN shlexFrom(s, i + 1, token, TRUE, TRUE, tokens)
    ELSE shlexFrom(s, i + 1, Append(token, s[i]), TRUE, FALSE, tokens)

shlex_split(s) == shlexFrom(s, 1, <<>>, FALSE, FALSE, <<>>)

(***************************************************************************)
(* The add-option popover.                                                 *)
(***************************************************************************)
Characters == {"-", "a", " ", "'"}

\* The option identifiers of options.plist offered by the popover.
Identifiers == {<<"-", "a">>, <<"a">>}

addParameterOptions(options, newOptions) == options \o join(<<" ">>, newOptions)

addParameter_(selectedObjects) ==
    /\ started
    /\ LET newOptions == selectedObjects
           options == IF HasDefault(AdditionalOptionsKey)
                      THEN GetDefault(AdditionalOptionsKey) ELSE <<>>
       IN  IF Len(newOptions) = 0 THEN UNCHANGED defaults
           ELSE /\ Len(addParameterOptions(options, newOptions)) <= MaxStored
                /\ defaults' = SetDefault(defaults, AdditionalOptionsKey,
                                          addParameterOptions(options, newOptions))
    /\ UNCHANGED <<registered, started, buttonState, buttonTag, menu, venv, font, compiler>>
    /\ UNCHANGED exportVars

(***************************************************************************)
(* Fonts.  A font is the sequence of its glyph layers, in the order in     *)
(* which export() visits them (glyph by glyph, layer by layer).  A shape   *)
(* has a class, the keys of its attributes and its corner hints; a layer   *)
(* of the copy also carries the normalisation passes that ran on it.       *)
(***************************************************************************)
PlainPath == [class |-> "GSPath", attributes |-> {}, hints |-> {}]
MaskedPath == [class |-> "GSPath", attributes |-> {"mask"}, hints |-> {}]
StrokedPath == [class |-> "GSPath", attributes |-> {"strokeWidth"}, hints |-> {}]
CornerPath == [class |-> "GSPath", attributes |-> {}, hints |-> {"corner"}]
ReversedComponent == [class |-> "GSComponent", attributes |-> {"reversePaths"}, hints |-> {}]

Shapes == {PlainPath, MaskedPath, StrokedPath, CornerPath, ReversedComponent}

SeqsUpTo(S, n) == UNION {[1..k -> S] : k \in 0..n}

\* A master layer, a special (brace or bracket) layer, or any other layer.
LayerKinds == {<<TRUE, FALSE>>, <<FALSE, TRUE>>, <<FALSE, FALSE>>}

Layer(kind, shapes) ==
    [isMasterLayer |-> kind[1], isSpecialLayer |-> kind[2], shapes |-> shapes,
     passes |-> <<>>]

SampleFont ==
    <<Layer(<<TRUE, FALSE>>, <<StrokedPath, ReversedComponent>>),
      Layer(<<FALSE, TRUE>>, <<PlainPath, MaskedPath>>)>>

SampleLayers ==
    {SampleFont[1], SampleFont[2],
     Layer(<<TRUE, FALSE>>, <<CornerPath>>),
     Layer(<<FALSE, FALSE>>, <<CornerPath, ReversedComponent>>)}

\* The layers of the fonts drawn as inputs: of each kind, with every
\* sequence of masked and stroked paths up to MaxShapes, and the sample layers.
Layers ==
    {Layer(kind, shapes) :
        kind \in LayerKinds, shapes \in SeqsUpTo({MaskedPath, StrokedPath}, MaxShapes)}
    \cup SampleLayers

Fonts == SeqsUpTo(Layers, MaxLayers)

RECURSIVE Flatten(_)
Flatten(seqs) == IF seqs = <<>> THEN <<>> ELSE seqs[1] \o Flatten(Tail(seqs))

Reverse(seq) == [i \in 1..Len(seq) |-> seq[Len(seq) + 1 - i]]

\* The host's outline operations, by their effect on a layer's shapes.
expandedStroke(shape) ==
    <<[shape EXCEPT !.attributes = @ \ {"strokeWidth", "strokeHeight"}]>>

decompose(component) == <<PlainPath>>

bake_everything(layer) ==
    [layer EXCEPT !.shapes = IF layer.shapes = <<>> THEN <<>> ELSE <<PlainPath>>,
                  !.passes = Append(@, "bake_everything")]

decompose_reversed_components(layer) ==
    [layer EXCEPT
        !.shapes = Flatten([i \in 1..Len(layer.shapes) |->
                       IF /\ layer.shapes[i].class = "GSComponent"
                          /\ "reversePaths" \in layer.shapes[i].attributes
                       THEN decompose(layer.shapes[i]) ELSE <<layer.shapes[i]>>]),
        !.passes = Append(@, "decompose_reversed_components")]

decompose_corners(layer) ==
    [layer EXCEPT
        !.shapes = [i \in 1..Len(layer.shapes) |-> [layer.shapes[i] EXCEPT !.hints = {}]],
        !.passes = Append(@, "decompose_corners")]

\* Each stroked path gives way, in place, to the paths of its expanded
\* stroke, which are inserted one by one at the path's index.
decompose_outlines(layer) ==
    [layer EXCEPT
        !.shapes = Flatten([i \in 1..Len(layer.shapes) |->
                       IF /\ layer.shapes[i].class = "GSPath"
                          /\ layer.shapes[i].attributes \cap {"strokeWidth", "strokeHeight"} # {}
                       THEN Reverse(expandedStroke(layer.shapes[i]))
                       ELSE <<layer.shapes[i]>>]),
        !.passes = Append(@, "decompose_outlines")]

\* Mutant: only the first shape is asked for a mask.
has_masks_first_shape(layer) ==
    layer.shapes # <<>> /\ "mask" \in layer.shapes[1].attributes

has_masks(layer) == \E i \in 1..Len(layer.shapes) : "mask" \in layer.shapes[i].attributes

normalizeLayer(layer) ==
    IF layer.isMasterLayer \/ layer.isSpecialLayer
    THEN IF has_masks(layer) THEN bake_everything(layer)
         ELSE decompose_reversed_components(decompose_outlines(decompose_corners(layer)))
    ELSE layer

normalizeFont(copy) == [i \in 1..Len(copy) |-> normalizeLayer(copy[i])]

(***************************************************************************)
(* Subprocesses and the virtual environment.                               *)
(***************************************************************************)
\* Mutant: the exit code is never checked.
run_subprocess_never_raises(check, returncode) == FALSE

\* run_subprocess_in_macro_window raises CalledProcessError when asked to
\* check and the process exits non-zero.
run_subprocess_raises(check, returncode) == check /\ returncode # 0

NoVenv == [dir |-> FALSE, python |-> FALSE, fontmake |-> FALSE]

\* What a venv command that exits non-zero leaves on disk.
Leftovers == {"nothing", "dir", "python"}

venvCommand(disk, returncode, leftover) ==
    IF returncode = 0 THEN [dir |-> TRUE, python |-> TRUE, fontmake |-> FALSE]
    ELSE CASE leftover = "nothing" -> disk
           [] leftover = "dir" -> [disk EXCEPT !.dir = TRUE]
           [] leftover = "python" -> [disk EXCEPT !.dir = TRUE, !.python = TRUE]

pipCommand(disk, returncode) == [disk EXCEPT !.fontmake = (returncode = 0)]

\* setUpEnviroment: [venv: the disk afterwards, raised, runs: the subprocesses run]
setUpEnviroment(disk, venvRc, leftover, pipRc) ==
    IF disk.python THEN [venv |-> disk, raised |-> FALSE, runs |-> <<>>]
    ELSE LET afterVenv == venvCommand(disk, venvRc, leftover)
             venvRun == [cmd |-> "venv", rc |-> venvRc]
             pipRun == [cmd |-> "pip", rc |-> pipRc]
         IN  IF run_subprocess_raises(TRUE, venvRc)
             THEN [venv |-> afterVenv, raised |-> TRUE, runs |-> <<venvRun>>]
             ELSE [venv |-> pipCommand(afterVenv, pipRc),
                   raised |-> run_subprocess_raises(TRUE, pipRc),
                   runs |-> <<venvRun, pipRun>>]

updateFontMake_ ==
    /\ started
    /\ \E i \in 1..Len(menu) : menu[i] = "Update fontMake"
    /\ venv' = IF venv.dir THEN NoVenv ELSE venv
    /\ UNCHANGED <<defaults, registered, started, buttonState, buttonTag, menu, font, compiler>>
    /\ UNCHANGED exportVars

(***************************************************************************)
(* export().                                                               *)
(***************************************************************************)
venvPythonPath == <<"venv/bin/python3">>
stagedFile == <<"Temp/font.glyphs">>

OK == <<"OK">>
NoExportPath == <<"No export path">>
GenericError == <<"An error occurred. Check Macro Window for details.">>

\* What python3 -m fontmake prints in an environment without the package.
NoModuleOutput == <<"No module named fontmake">>

\* Mutant: "ERROR:" counts anywhere in the line.
isErrorLineAnywhere(line) ==
    \E i \in 1..Len(line) : line[i] \in {"ERROR:", "fontmake: Error:"}

isErrorLine(line) ==
    \/ (Len(line) > 0 /\ line[1] = "ERROR:")
    \/ \E i \in 1..Len(line) : line[i] = "fontmake: Error:"

RECURSIVE errorLinesOf(_)
errorLinesOf(lines) ==
    IF lines = <<>> THEN <<>>
    ELSE IF isErrorLine(lines[1]) THEN <<lines[1]>> \o errorLinesOf(Tail(lines))
    ELSE errorLinesOf(Tail(lines))

\* Mutant: the output is searched for marker lines whatever the exit code.
exportResultByMarkerLines(returncode, stdout) ==
    LET errorMsg == join(<<"\n">>, errorLinesOf(splitlines(stdout)))
    IN  IF errorMsg # <<>> THEN [ok |-> FALSE, msg |-> errorMsg]
        ELSE IF returncode # 0 THEN [ok |-> FALSE, msg |-> GenericError]
        ELSE [ok |-> TRUE, msg |-> OK]

\* The (success, message) pair export() returns after the compiler ran.
exportResult(returncode, stdout) ==
    IF returncode # 0
    THEN LET errorMsg == join(<<"\n">>, errorLinesOf(splitlines(stdout)))
         IN  [ok |-> FALSE, msg |-> IF errorMsg = <<>> THEN GenericError ELSE errorMsg]
    ELSE [ok |-> TRUE, msg |-> OK]

\* The argument list of the compiler; additionalOptions is <<>> when the
\* preference is unset or empty, tokens is its shlex.split.
exportArguments(exportPath, outlineformat, additionalOptions, tokens) ==
    <<venvPythonPath, <<"-m">>, <<"fontmake">>, <<"--output-dir">>, <<exportPath>>,
      <<"-g">>, stagedFile, <<"-o">>>>
    \o outlineformatKeys(outlineformat)
    \o (IF additionalOptions # <<>> /\ Len(tokens) > 0 THEN tokens ELSE <<>>)

\* Mutant: a missing export path goes unnoticed.
noExportPathIgnored(exportPath) == FALSE

\* exportPath is None
noExportPath(exportPath) == exportPath = None

NoProcess == [invoked |-> FALSE, installed |-> FALSE, args |-> <<>>,
              returncode |-> 0, stdout |-> <<>>]

Returned(ok, msg) == [kind |-> "returned", exc |-> "", ok |-> ok, msg |-> msg]
Raised(exc) == [kind |-> "raised", exc |-> exc, ok |-> FALSE, msg |-> <<>>]
NoResult == [kind |-> "none", exc |-> "", ok |-> FALSE, msg |-> <<>>]

\* One call of export(font).  venvRc, leftover and pipRc are the outcomes of
\* the bootstrap subprocesses if they run, folder is what GetFolder() returns
\* if the user is asked; the compiler does what the variable compiler says if
\* it runs in an environment that holds the package.
export(venvRc, leftover, pipRc, folder) ==
    /\ started
    /\ LET env == setUpEnviroment(venv, venvRc, leftover, pipRc)
           exportPath ==
               IF BoolDefault(UseExportPathKey)
               THEN (IF HasDefault(ExportPathKey) THEN GetDefault(ExportPathKey) ELSE None)
               ELSE folder
           copy == normalizeFont(font)
           outlineformat == IntDefault(ExportOutlineformatKey)
           additionalOptions ==
               IF HasDefault(AdditionalOptionsKey)
               THEN GetDefault(AdditionalOptionsKey) ELSE <<>>
           split == IF additionalOptions # <<>> THEN shlex_split(additionalOptions)
                    ELSE [ok |-> TRUE, tokens |-> <<>>]
           installed == env.venv.fontmake
           rc == IF installed THEN compiler.returncode ELSE 1
           out == IF installed THEN compiler.stdout ELSE NoModuleOutput
           pair == exportResult(rc, out)
       IN  /\ venv' = env.venv
           /\ subprocesses' =
                  IF ~env.raised /\ ~noExportPath(exportPath) /\ outlineformat \in OutlineFormats
                     /\ split.ok
                  THEN Append(env.runs, [cmd |-> "fontmake", rc |-> rc])
                  ELSE env.runs
           /\ IF env.raised
              THEN /\ steps' = <<"setUpEnviroment">>
                   /\ destination' = None
                   /\ result' = Raised("CalledProcessError")
                   /\ process' = NoProcess
                   /\ fontCopy' = <<>>
                   /\ UNCHANGED tempFile
              ELSE IF noExportPath(exportPath)
              THEN /\ steps' = <<"setUpEnviroment", "exportPath">>
                   /\ destination' = None
                   /\ result' = Returned(FALSE, NoExportPath)
                   /\ process' = NoProcess
                   /\ fontCopy' = <<>>
                   /\ UNCHANGED tempFile
              ELSE /\ destination' = exportPath
                   /\ fontCopy' = copy
                   /\ tempFile' = copy
                   /\ IF outlineformat \notin OutlineFormats
                      THEN /\ steps' = <<"setUpEnviroment", "exportPath", "copy", "save">>
                           /\ result' = Raised("KeyError")
                           /\ process' = NoProcess
                      ELSE IF ~split.ok
                      THEN /\ steps' = <<"setUpEnviroment", "exportPath", "copy", "save">>
                           /\ result' = Raised("ValueError")
                           /\ process' = NoProcess
                      ELSE /\ steps' = <<"setUpEnviroment", "exportPath", "copy", "save",
                                         "fontmake">>
                           /\ process' =
                                  [invoked |-> TRUE, installed |-> installed,
                                   args |-> exportArguments(exportPath, outlineformat,
                                                            additionalOptions, split.tokens),
                                   returncode |-> rc, stdout |-> out]
                           /\ result' = Returned(pair.ok, pair.msg)
    /\ UNCHANGED <<defaults, registered, started, buttonState, buttonTag, menu, font, compiler>>

(***************************************************************************)
(* Initial states: the plug-in is loaded, start() has not run yet, the     *)
(* preferences are what earlier sessions stored, there is no venv.         *)
(***************************************************************************)
InitWith(stores, fonts, runs, buttonStates) ==
    /\ defaults \in stores
    /\ registered = NoStore
    /\ started = FALSE
    /\ buttonState \in buttonStates
    /\ compiler \in {[returncode |-> run[1], stdout |-> run[2]] : run \in runs}
    /\ buttonTag = [b \in Buttons |-> 0]
    /\ menu = <<NibMenuItem>>
    /\ venv = NoVenv
    /\ font \in fonts
    /\ fontCopy = <<>>
    /\ tempFile = <<>>
    /\ steps = <<>>
    /\ subprocesses = <<>>
    /\ destination = None
    /\ process = NoProcess
    /\ result = NoResult

(***************************************************************************)
(* Spec: the export life cycle.  start(), export() and the menu's "Update  *)
(* fontMake", with the use-fixed-path flag and the extra options as an     *)
(* earlier session left them.                                              *)
(***************************************************************************)
MainStores ==
    {Put(Put(NoStore, UseExportPathKey, use), AdditionalOptionsKey, options) :
        use \in Maybe({TRUE}), options \in Maybe({<<"-", "a">>, <<"'">>})}

\* What the compiler may do: exit code and captured output.
MainRuns == {<<0, <<"x", "\n">>>>, <<1, <<"ERROR:", "x", "\n">>>>, <<2, <<"x", "\n">>>>}

Init == InitWith(MainStores, {SampleFont}, MainRuns, [Buttons -> BOOLEAN])

exportMain ==
    \E venvRc \in {0, 1}, leftover \in Leftovers, pipRc \in {0, 1},
       folder \in {"/A", None} :
        export(venvRc, leftover, pipRc, folder)

Next ==
    \/ start
    \/ updateFontMake_
    \/ exportMain

Spec == Init /\ [][Next]_vars

(***************************************************************************)
(* SpecDialog: the export dialog's controls and the recent-paths menu.     *)
(***************************************************************************)
InitDialog == InitWith({NoStore}, {SampleFont}, {<<0, <<>>>>}, [Buttons -> BOOLEAN])

NextDialog ==
    \/ start
    \/ \E sender \in Buttons : setFileType_(sender)
    \/ \E path \in Paths \cup {None} : openDoc_(path)
    \/ \E item \in 1..(Cardinality(Paths) + 4) : setRecentExportPath_(item)
    \/ clearRecent_

SpecDialog == InitDialog /\ [][NextDialog]_vars

(***************************************************************************)
(* Properties of the export life cycle (Spec).                             *)
(***************************************************************************)
exportRan == steps # <<>>

BootstrapFailed ==
    \E i \in 1..Len(subprocesses) :
        subprocesses[i].cmd \in {"venv", "pip"} /\ subprocesses[i].rc # 0

Ran(step) == \E i \in 1..Len(steps) : steps[i] = step

\* Every line of msg starts with "ERROR:" or contains "fontmake: Error:".
OnlyMarkerLines(msg) ==
    /\ msg # <<>>
    /\ msg[Len(msg)] # "\n"
    /\ \A i \in 1..Len(msg) :
        (i = 1 \/ msg[i - 1] = "\n") =>
            \/ msg[i] = "ERROR:"
            \/ \E j \in i..Len(msg) :
                /\ msg[j] = "fontmake: Error:"
                /\ \A k \in i..j : msg[k] # "\n"

ThreeFailureKinds(msg) ==
    msg = NoExportPath \/ msg = GenericError \/ OnlyMarkerLines(msg)

\* C2 as stated: an export whose environment bootstrap fails (venv creation
\* or package install exits non-zero) raises nothing and ends by returning a
\* (success flag, message) pair of one of the three failure kinds.
C2_BootstrapFailureReturnsPair ==
    (exportRan /\ BootstrapFailed) =>
        /\ result.kind = "returned"
        /\ ~result.ok
        /\ ThreeFailureKinds(result.msg)

\* C2 as amended: an export whose bootstrap fails ends by raising
\* CalledProcessError, and only such an export does; an export that raises
\* nothing returns a pair, and every returned failure is one of the three
\* kinds (no export path, marker lines, generic fallback); a success is "OK".
C2_BootstrapFailureRaises ==
    exportRan =>
        /\ BootstrapFailed <=> result = Raised("CalledProcessError")
        /\ result.kind \in {"returned", "raised"}
        /\ result.kind = "raised" => result.exc \in {"CalledProcessError", "ValueError"}
        /\ (result.kind = "returned" /\ ~result.ok) => ThreeFailureKinds(result.msg)
        /\ (result.kind = "returned" /\ result.ok) => result.msg = OK

\* An export whose package install exited non-zero ended by raising.
C2_Witness ==
    /\ subprocesses = <<[cmd |-> "venv", rc |-> 0], [cmd |-> "pip", rc |-> 1]>>
    /\ result = Raised("CalledProcessError")

\* The stored extra options hold an even number of quotes.
QuotesBalanced ==
    LET options == IF HasDefault(AdditionalOptionsKey)
                   THEN GetDefault(AdditionalOptionsKey) ELSE <<>>
    IN  Cardinality({i \in 1..Len(options) : options[i] = "'"}) % 2 = 0

AllSteps == <<"setUpEnviroment", "exportPath", "copy", "save", "fontmake">>

\* C6 as stated: an export that finds no destination returns (False, "No
\* export path") without copying, saving or compiling; an export that finds
\* one runs destination resolution, copy and normalisation, staged save and
\* the compiler, in this order, once each.
C6_StepsOnceInOrder ==
    (exportRan /\ Ran("exportPath")) =>
        IF destination = None
        THEN /\ result = Returned(FALSE, NoExportPath)
             /\ ~Ran("copy") /\ ~Ran("save") /\ ~Ran("fontmake")
             /\ ~process.invoked
        ELSE /\ steps = AllSteps
             /\ process.invoked

\* C6 as amended: in an export whose bootstrap raises, none of the steps
\* runs; otherwise an export that finds no destination returns (False, "No
\* export path") without copying, saving or compiling, and an export that
\* finds one runs destination resolution, copy and normalisation and staged
\* save in this order, once each, and then the compiler once, unless the
\* extra options hold an unclosed quote: then it raises ValueError after
\* the save and the compiler is not run.
C6_StepsInOrderUnlessRaised ==
    exportRan =>
        IF BootstrapFailed
        THEN steps = <<"setUpEnviroment">> /\ ~process.invoked /\ fontCopy = <<>>
        ELSE IF destination = None
        THEN /\ steps = <<"setUpEnviroment", "exportPath">>
             /\ result = Returned(FALSE, NoExportPath)
             /\ ~process.invoked
             /\ fontCopy = <<>>
        ELSE IF QuotesBalanced
        THEN /\ steps = AllSteps
             /\ process.invoked
             /\ result.kind = "returned"
             /\ tempFile = fontCopy
        ELSE /\ steps = <<"setUpEnviroment", "exportPath", "copy", "save">>
             /\ ~process.invoked
             /\ result = Raised("ValueError")
             /\ tempFile = fontCopy

\* The folder prompt returned None after an earlier export had staged a file.
C6_Witness ==
    /\ steps = <<"setUpEnviroment", "exportPath">>
    /\ result = Returned(FALSE, NoExportPath)
    /\ tempFile # <<>>

\* C9 as stated: whenever an export runs the compiler, the package install
\* has succeeded since the venv was last created.
C9_CompilerRunsWithPackage == process.invoked => process.installed

(***************************************************************************)
(* Properties of the dialog (SpecDialog).                                  *)
(***************************************************************************)
recentPathsOf(store) ==
    IF ExportRecentExportPathsKey \in DOMAIN store
    THEN store[ExportRecentExportPathsKey] ELSE <<>>

NoDuplicates(seq) == \A i, j \in 1..Len(seq) : seq[i] = seq[j] => i = j

Without(seq, x) == SelectSeq(seq, LAMBDA y : y # x)

\* C3 as stated: every openDoc_ that picks a folder leaves the recent paths
\* free of duplicates with the picked path first, also when the path was in
\* the list already, and the other paths behind it in the order they had;
\* clearRecent_ leaves no recent path.
C3_MostRecentFirst ==
    [][/\ \A path \in Paths :
            openDoc_(path) =>
                /\ NoDuplicates(recentPathsOf(defaults'))
                /\ recentPathsOf(defaults') =
                       <<path>> \o Without(recentPathsOf(defaults), path)
       /\ clearRecent_ => recentPathsOf(defaults') = <<>>]_vars

\* C7: once start() has run, and after any setFileType_ from one of the four
\* buttons, the stored format is one of the four, exactly one checkbox is on,
\* it is the one whose tag is the stored format, and it is the variable TTF
\* one as long as no format was ever stored.
C7_OneFormatChecked ==
    started =>
        /\ IntDefault(ExportOutlineformatKey) \in OutlineFormats
        /\ Cardinality({b \in Buttons : buttonState[b]}) = 1
        /\ \A b \in Buttons :
            buttonState[b] <=> buttonTag[b] = IntDefault(ExportOutlineformatKey)
        /\ ExportOutlineformatKey \notin DOMAIN defaults => buttonState["variableTTFButton"]

\* The static OTF format was chosen after another one: its checkbox is on.
C7_Witness ==
    /\ started
    /\ ExportOutlineformatKey \in DOMAIN defaults
    /\ defaults[ExportOutlineformatKey] = OutlineFormatStaticCFF
    /\ buttonState["staticCFFButton"]
    /\ ~buttonState["variableTTFButton"]

(***************************************************************************)
(* SpecFilter: export() over every exit code and captured output of the    *)
(* compiler.                                                               *)
(***************************************************************************)
AllOff == [b \in Buttons |-> FALSE]

OutputAtoms == {"ERROR:", "fontmake: Error:", "x", "\n"}
ReturnCodes == {0, 1, 2}
FilterRuns == ReturnCodes \X SeqsUpTo(OutputAtoms, MaxOut)

InitFilter == InitWith({NoStore}, {SampleFont}, FilterRuns, {AllOff})

exportFilter == export(0, "nothing", 0, "/A")

NextFilter ==
    \/ start
    \/ exportFilter

SpecFilter == InitFilter /\ [][NextFilter]_vars

\* The text holds a line that starts with "ERROR:" or contains "fontmake: Error:".
HasMarkerLine(text) ==
    \E i \in 1..Len(text) :
        \/ text[i] = "fontmake: Error:"
        \/ (text[i] = "ERROR:" /\ (i = 1 \/ text[i - 1] = "\n"))

LineMatches(line) ==
    \/ (line # <<>> /\ Head(line) = "ERROR:")
    \/ "fontmake: Error:" \in {line[i] : i \in 1..Len(line)}

\* C1 as stated: an export that ran the compiler is a failure whenever the
\* output holds a marker line, whatever the exit code, and whenever the exit
\* code is non-zero; it is the success (True, "OK") in every other case.
C1_MarkerLineFails ==
    process.invoked =>
        /\ result.kind = "returned"
        /\ (HasMarkerLine(process.stdout) \/ process.returncode # 0) => ~result.ok
        /\ (~HasMarkerLine(process.stdout) /\ process.returncode = 0) =>
               result = Returned(TRUE, OK)

\* C1 as amended: an export that ran the compiler is a failure exactly when
\* the exit code is non-zero, and is the success (True, "OK") whenever the
\* exit code is zero, also when the output holds a marker line.
C1_ExitCodeDecides ==
    process.invoked =>
        /\ result.kind = "returned"
        /\ result.ok <=> process.returncode = 0
        /\ result.ok => result.msg = OK

\* The compiler printed a marker line and exited with 0: export succeeded.
C1_Witness ==
    /\ process.invoked
    /\ process.returncode = 0
    /\ HasMarkerLine(process.stdout)
    /\ result = Returned(TRUE, OK)

\* C5: after a compiler run that exited non-zero the message is the lines
\* of the output that start with "ERROR:" or contain "fontmake: Error:", as
\* they are and in their order, joined by line breaks, and no other line;
\* and the generic fallback when no line matches.
C5_ErrorMessage ==
    (process.invoked /\ process.returncode # 0) =>
        LET matching == SelectSeq(splitlines(process.stdout), LineMatches)
        IN  /\ result.kind = "returned" /\ ~result.ok
            /\ IF matching = <<>> THEN result.msg = GenericError
               ELSE /\ splitlines(result.msg) = matching
                    /\ Len(result.msg) = Len(Flatten(matching)) + Len(matching) - 1

\* A line that holds "ERROR:" without starting with it, then a marker line.
C5_Witness ==
    /\ process.invoked
    /\ process.returncode = 2
    /\ process.stdout = <<"x", "ERROR:", "\n", "ERROR:", "x">>
    /\ result = Returned(FALSE, <<"ERROR:", "x">>)

(***************************************************************************)
(* SpecArgs: export() over the stored format, fixed path, use-fixed-path   *)
(* flag and extra-options string.                                          *)
(***************************************************************************)
OptionStrings == SeqsUpTo(Characters, MaxLen)

ArgsStores ==
    {Put(Put(Put(Put(NoStore, ExportOutlineformatKey, format), AdditionalOptionsKey, options),
             UseExportPathKey, use), ExportPathKey, path) :
        format \in Maybe(OutlineFormats), options \in Maybe(OptionStrings),
        use \in Maybe({TRUE}), path \in Maybe({"/B"})}

InitArgs == InitWith(ArgsStores, {SampleFont}, {<<0, <<>>>>}, {AllOff})

exportArgs == \E folder \in {"/A", None} : export(0, "nothing", 0, folder)

NextArgs ==
    \/ start
    \/ exportArgs

SpecArgs == InitArgs /\ [][NextArgs]_vars

storedOptions ==
    IF AdditionalOptionsKey \in DOMAIN defaults THEN defaults[AdditionalOptionsKey] ELSE <<>>

\* The words of a string without quotes: its maximal stretches without a blank.
WordsOf(s) ==
    LET starts == {i \in 1..Len(s) : s[i] # " " /\ (i = 1 \/ s[i - 1] = " ")}
        nth(k) == CHOOSE i \in starts : Cardinality({j \in starts : j < i}) = k - 1
        end(i) == CHOOSE j \in i..Len(s) :
                      /\ \A m \in i..j : s[m] # " "
                      /\ (j = Len(s) \/ s[j + 1] = " ")
    IN  [k \in 1..Cardinality(starts) |-> SubSeq(s, nth(k), end(nth(k)))]

FormatTuple(format) ==
    IF format = 1 THEN << <<"variable">> >>
    ELSE IF format = 2 THEN << <<"variable-cff2">> >>
    ELSE IF format = 3 THEN << <<"otf">>, <<"-i">> >>
    ELSE << <<"ttf">>, <<"-i">> >>

\* C4: the argument list of the compiler is the interpreter, "-m",
\* "fontmake", "--output-dir", the export path, "-g", the staged file, "-o",
\* the format's tuple, and then the shell words of the stored extra options
\* in their order; nothing follows the tuple when no option is stored.
C4_ArgumentList ==
    process.invoked =>
        LET format == IF ExportOutlineformatKey \in DOMAIN defaults
                      THEN defaults[ExportOutlineformatKey] ELSE 1
            appended == SubSeq(process.args, 9 + Len(FormatTuple(format)), Len(process.args))
        IN  /\ SubSeq(process.args, 1, 8) =
                   << <<"venv/bin/python3">>, <<"-m">>, <<"fontmake">>, <<"--output-dir">>,
                      <<destination>>, <<"-g">>, <<"Temp/font.glyphs">>, <<"-o">> >>
            /\ SubSeq(process.args, 9, 8 + Len(FormatTuple(format))) = FormatTuple(format)
            /\ Len(process.args) >= 8 + Len(FormatTuple(format))
            /\ appended = shlex_split(storedOptions).tokens
            /\ (\A i \in 1..Len(storedOptions) : storedOptions[i] # "'") =>
                   appended = WordsOf(storedOptions)
            /\ storedOptions = <<>> => appended = <<>>

\* A static TTF export to the fixed path with two extra options.
C4_Witness ==
    /\ process.invoked
    /\ destination = "/B"
    /\ storedOptions = <<"-", " ", "a">>
    /\ process.args =
           << <<"venv/bin/python3">>, <<"-m">>, <<"fontmake">>, <<"--output-dir">>, <<"/B">>,
              <<"-g">>, <<"Temp/font.glyphs">>, <<"-o">>, <<"ttf">>, <<"-i">>, <<"-">>, <<"a">> >>

(***************************************************************************)
(* SpecOptions: the add-option popover over the stored extra options.      *)
(***************************************************************************)
OptionStores == {Put(NoStore, AdditionalOptionsKey, options) : options \in Maybe(OptionStrings)}

Selections == SeqsUpTo(Identifiers, MaxSelected)

InitOptions == InitWith(OptionStores, {SampleFont}, {<<0, <<>>>>}, {AllOff})

NextOptions ==
    \/ start
    \/ \E selectedObjects \in Selections : addParameter_(selectedObjects)

SpecOptions == InitOptions /\ [][NextOptions]_vars

optionsOf(store) ==
    IF AdditionalOptionsKey \in DOMAIN store THEN store[AdditionalOptionsKey] ELSE <<>>

\* C10 as stated: after addParameter_ with a selection, the shell words of
\* the stored string are the shell words of the string stored before (where
\* that string has shell words at all) followed by the selected identifiers,
\* each a word of its own; with nothing selected the store is left as it was.
C10_OptionsStaySeparate ==
    [][\A selectedObjects \in Selections :
        addParameter_(selectedObjects) =>
            IF selectedObjects = <<>> THEN defaults' = defaults
            ELSE shlex_split(optionsOf(defaults)).ok =>
                     /\ shlex_split(optionsOf(defaults')).ok
                     /\ shlex_split(optionsOf(defaults')).tokens =
                            shlex_split(optionsOf(defaults)).tokens \o selectedObjects]_vars

(***************************************************************************)
(* SpecNormalize: export() over the fonts.                                 *)
(***************************************************************************)
InitNormalize == InitWith({NoStore}, Fonts, {<<0, <<>>>>}, {AllOff})

exportNormalize == export(0, "nothing", 0, "/A")

NextNormalize ==
    \/ start
    \/ exportNormalize

SpecNormalize == InitNormalize /\ [][NextNormalize]_vars

HasMaskShape(layer) == "mask" \in UNION {layer.shapes[i].attributes : i \in 1..Len(layer.shapes)}

\* C8: in the copy export() normalises, a master or special layer with a
\* mask shape went through the bake step alone, a master or special layer
\* without one went through decompose corners, expand strokes and decompose
\* reversed components in this order, and any other layer is as it was; the
\* font passed to export is as it was.
C8_PassesPerLayer ==
    Ran("copy") =>
        /\ font \in Fonts
        /\ Len(fontCopy) = Len(font)
        /\ \A i \in 1..Len(font) :
            /\ fontCopy[i].isMasterLayer = font[i].isMasterLayer
            /\ fontCopy[i].isSpecialLayer = font[i].isSpecialLayer
            /\ IF font[i].isMasterLayer \/ font[i].isSpecialLayer
               THEN IF HasMaskShape(font[i])
                    THEN fontCopy[i].passes = <<"bake_everything">>
                    ELSE fontCopy[i].passes = <<"decompose_corners", "decompose_outlines",
                                                "decompose_reversed_components">>
               ELSE fontCopy[i] = font[i]

\* A special layer whose second shape is a mask was baked, and a master
\* layer without a mask went through the three passes.
C8_Witness ==
    /\ Ran("copy")
    /\ Len(font) = 2
    /\ font[1].isSpecialLayer /\ font[1].shapes = <<StrokedPath, MaskedPath>>
    /\ fontCopy[1].passes = <<"bake_everything">>
    /\ font[2].isMasterLayer /\ font[2].shapes = <<StrokedPath, ReversedComponent>>
    /\ fontCopy[2].passes = <<"decompose_corners", "decompose_outlines",
                              "decompose_reversed_components">>
    /\ fontCopy[2].shapes = <<PlainPath, PlainPath>>

====
